---- MODULE Spec2Model ----
(***************************************************************************)
(* A model of src/src/urdf_link.py: the URDF_Link class (constructor and   *)
(* the link transform A) and the reader read_urdf (link ordering loop and  *)
(* registry population).                                                    *)
(*                                                                          *)
(* Conventions of the model.                                                *)
(*  - Angles are counted in quarter turns (1 = pi/2 rad) and taken modulo   *)
(*    4, so that every rotation matrix has entries in {-1, 0, 1} and the    *)
(*    arithmetic is exact.                                                  *)
(*  - Link names are the integers 1..n in file order (the code only tests   *)
(*    names for equality and uses them as dictionary keys); Ghost is a      *)
(*    name that no link of the file declares.                               *)
(*  - A file declares each link name once, and the description is taken as  *)
(*    the parser delivers it: robot.parent_map holds, for a link that is a  *)
(*    joint's child, its one connecting joint and that joint's parent.      *)
(*  - Python's None is the empty tuple <<>> for optional tuples and         *)
(*    records, and the name NoneName for an optional link name.             *)
(*  - utils.compose, utils.unit_twist and the point/vector conversions are  *)
(*    not part of the sources at hand; they follow their description in     *)
(*    the specification (section 4.1).                                      *)
(***************************************************************************)
EXTENDS Integers, Sequences, FiniteSets, TLC

\* ------------------------------------------------------------------ bounds
MaxLinks == 3
MaxAttrLinks == 2
MaxCoord == 1

\* ------------------------------------------------- vectors and rotations
Vec(x, y, z) == <<x, y, z>>

Zero3 == Vec(0, 0, 0)

VecAdd(u, v) == Vec(u[1] + v[1], u[2] + v[2], u[3] + v[3])

VecNeg(u) == Vec(0 - u[1], 0 - u[2], 0 - u[3])

VecScale(u, q) == Vec(u[1] * q, u[2] * q, u[3] * q)

Dot(u, v) == u[1] * v[1] + u[2] * v[2] + u[3] * v[3]

Cross(u, v) ==
  Vec(u[2] * v[3] - u[3] * v[2], u[3] * v[1] - u[1] * v[3], u[1] * v[2] - u[2] * v[1])

Identity3 == <<Vec(1, 0, 0), Vec(0, 1, 0), Vec(0, 0, 1)>>

Column(m, j) == Vec(m[1][j], m[2][j], m[3][j])

Transpose(m) == <<Column(m, 1), Column(m, 2), Column(m, 3)>>

MatVec(m, v) == Vec(Dot(m[1], v), Dot(m[2], v), Dot(m[3], v))

MatRow(r, b) == Vec(Dot(r, Column(b, 1)), Dot(r, Column(b, 2)), Dot(r, Column(b, 3)))

MatMul(a, b) == <<MatRow(a[1], b), MatRow(a[2], b), MatRow(a[3], b)>>

\* cosine and sine of q quarter turns
Cos4(q) == CASE q % 4 = 0 -> 1 [] q % 4 = 1 -> 0 [] q % 4 = 2 -> 0 - 1 [] OTHER -> 0

Sin4(q) == CASE q % 4 = 0 -> 0 [] q % 4 = 1 -> 1 [] q % 4 = 2 -> 0 [] OTHER -> 0 - 1

Rx(q) == <<Vec(1, 0, 0), Vec(0, Cos4(q), 0 - Sin4(q)), Vec(0, Sin4(q), Cos4(q))>>

Ry(q) == <<Vec(Cos4(q), 0, Sin4(q)), Vec(0, 1, 0), Vec(0 - Sin4(q), 0, Cos4(q))>>

Rz(q) == <<Vec(Cos4(q), 0 - Sin4(q), 0), Vec(Sin4(q), Cos4(q), 0), Vec(0, 0, 1)>>

\* Rot3(): the identity rotation
Rot3 == Identity3

\* Rot3.rpy(roll, pitch, yaw): the rotation a roll-pitch-yaw triple encodes
Rpy(rpy) == MatMul(Rz(rpy[3]), MatMul(Ry(rpy[2]), Rx(rpy[1])))

\* ------------------------------------------------------------------ poses
Pose3(R, t) == [R |-> R, t |-> t]

Point3(x, y, z) == Vec(x, y, z)

PoseInverse(p) == Pose3(Transpose(p.R), VecNeg(MatVec(Transpose(p.R), p.t)))

\* utils.compose(a, b): a followed by b
compose(a, b) == Pose3(MatMul(a.R, b.R), VecAdd(MatVec(a.R, b.t), a.t))

vector_of_point3(p) == Vec(p[1], p[2], p[3])

point3_of_vector(v) == Point3(v[1], v[2], v[3])

Sign(x) == IF x > 0 THEN 1 ELSE IF x < 0 THEN 0 - 1 ELSE 0

\* the direction of v, for v along one coordinate axis (the only axes modelled)
Normalize(v) == Vec(Sign(v[1]), Sign(v[2]), Sign(v[3]))

\* utils.unit_twist(w, p): angular part the axis direction, linear part
\* -(axis x point)
unit_twist(w, p) ==
  LET n == Normalize(w)
      lin == VecNeg(Cross(n, p))
  IN  <<n[1], n[2], n[3], lin[1], lin[2], lin[3]>>

\* ------------------------------------------------------------- URDF_Link
\* A joint type as the Link class stores it
JointTypes == {"R", "P"}

\* URDF_Link.__init__ with the point on the axis read off the center-of-mass
\* pose itself instead of its inverse
URDF_Link_PointInLinkFrame(origin, axis, joint_type, mass, center_of_mass, inertia) ==
  LET link_com == PoseInverse(center_of_mass)
      joint_axis_com == vector_of_point3(MatVec(link_com.R, point3_of_vector(axis)))
      point_on_axis == vector_of_point3(center_of_mass.t)
      screw_axis == unit_twist(joint_axis_com, point_on_axis)
  IN  [origin |-> origin, axis |-> axis, joint_type |-> joint_type, mass |-> mass,
       center_of_mass |-> center_of_mass, inertia |-> inertia, screw_axis |-> screw_axis]

\* URDF_Link.__init__: the screw axis expressed in the center-of-mass frame,
\* then Link.__init__, which stores its arguments
URDF_Link(origin, axis, joint_type, mass, center_of_mass, inertia) ==
  LET link_com == PoseInverse(center_of_mass)
      joint_axis_com == vector_of_point3(MatVec(link_com.R, point3_of_vector(axis)))
      point_on_axis == vector_of_point3(link_com.t)
      screw_axis == unit_twist(joint_axis_com, point_on_axis)
  IN  [origin |-> origin, axis |-> axis, joint_type |-> joint_type, mass |-> mass,
       center_of_mass |-> center_of_mass, inertia |-> inertia, screw_axis |-> screw_axis]

\* the rotation URDF_Link.A picks for a revolute joint
RevoluteRotation(axis, q) ==
  IF axis = Vec(1, 0, 0) THEN Rx(q)
  ELSE IF axis = Vec(0, 1, 0) THEN Ry(q)
  ELSE Rz(q)

\* URDF_Link.A(q): the link transform
A(self, q) ==
  IF self.joint_type = "R"
  THEN compose(self.origin, Pose3(RevoluteRotation(self.axis, q), Point3(0, 0, 0)))
  ELSE compose(self.origin, Pose3(Rot3, point3_of_vector(VecScale(self.axis, q))))

\* ----------------------------------------------------------- compose_pose
compose_pose(rpy, xyz) ==
  LET rotation == Rot3
      point == Point3(xyz[1], xyz[2], xyz[3])
  IN  Pose3(rotation, point)

\* ------------------------------------------------- the parsed description
\* Python's None, for a parent name
NoneName == 0 - 1

\* a link name that no link of the file declares
Ghost == 0

None == <<>>

\* an <origin> element: roll-pitch-yaw and x-y-z
Origin(rpy, xyz) == [rpy |-> rpy, xyz |-> xyz]

\* an <inertial> block: mass, origin and the six inertia entries
\* <<ixx, ixy, ixz, iyy, iyz, izz>>
Inertial(mass, origin, inertia) == [mass |-> mass, origin |-> origin, inertia |-> inertia]

DefaultInertial == Inertial(1, Origin(Zero3, Vec(1, 0, 0)), <<1, 0, 0, 1, 0, 1>>)

InertialProfiles ==
  { DefaultInertial,
    Inertial(2, Origin(Vec(1, 0, 0), Vec(0, 0, 1)), <<2, 1, 0, 2, 0, 3>>) }

\* a <joint>: declared type, optional axis, origin
Joint(joint_type, axis, origin) == [joint_type |-> joint_type, axis |-> axis, origin |-> origin]

DefaultJoint == Joint("revolute", None, Origin(Zero3, Vec(1, 0, 0)))

JointProfiles ==
  { DefaultJoint,
    Joint("continuous", Vec(1, 0, 0), Origin(Vec(0, 0, 1), Vec(0, 1, 0))),
    Joint("prismatic", Vec(0, 0, 0 - 1), Origin(Zero3, Zero3)),
    Joint("fixed", None, Origin(Vec(0, 1, 0), Vec(0, 0, 1))),
    Joint("revolute", Vec(0, 1, 0), Origin(Zero3, Vec(0, 0, 1))) }

\* the description URDF.from_xml_string returns for n links in file order:
\* inertial[c] the inertial block of link c (or None), parent[c] the parent
\* link its connecting joint names (NoneName when c is no joint's child),
\* joint[c] that joint; the joint whose child is link c is itself named c
Robot(n, inertial, parent, joint) ==
  LET children == {c \in 1..n : parent[c] # NoneName}
  IN  [links |-> [c \in 1..n |-> [name |-> c, inertial |-> inertial[c]]],
       joint_map |-> [c \in children |-> joint[c]],
       parent_map |-> [c \in children |-> <<c, parent[c]>>]]

\* ------------------------------------------------------------- the state
VARIABLES
  pc,                  \* the position in read_urdf, or in the URDF_Link calls
  robot,               \* the parsed description
  link_names,          \* read_urdf: the link names in file order
  ordered_link_names,  \* read_urdf: the parent-before-child ordering
  idx,                 \* the position of the running for loop in link_names
  passes,              \* the while-loop bodies started, counted up to N + 1
  urdf_link_dict,      \* read_urdf: the registry under construction
  args,                \* the arguments of the URDF_Link constructor call
  link,                \* the constructed URDF_Link
  q,                   \* the joint coordinate of the last call of A
  transform            \* the pose the last call of A returned

vars ==
  <<pc, robot, link_names, ordered_link_names, idx, passes, urdf_link_dict,
    args, link, q, transform>>

linkVars == <<args, link, q, transform>>

readVars == <<robot, link_names, ordered_link_names, idx, passes, urdf_link_dict>>

Range(s) == {s[j] : j \in DOMAIN s}

\* link_dict = {link.name: link for link in robot.links}
link_dict == [name \in {l.name : l \in Range(robot.links)} |->
                CHOOSE l \in Range(robot.links) : l.name = name]

\* joint_dict = {joint.name: joint for joint in robot.joints}
joint_dict == robot.joint_map

\* ----------------------------------------------------- read_urdf: ordering
\* the append condition without the test that the parent is ordered
CanAppend_NoParentCheck(link_name, ordered, parent_map) ==
  link_name \notin Range(ordered)

\* the condition under which the for loop appends link_name
CanAppend(link_name, ordered, parent_map) ==
  /\ link_name \notin Range(ordered)
  /\ parent_map[link_name][2] \in Range(ordered)

\* link_names and the roots, in file order
OrderInit ==
  /\ pc = "parsed"
  /\ link_names' = [j \in DOMAIN robot.links |-> robot.links[j].name]
  /\ ordered_link_names' =
       SelectSeq(link_names', LAMBDA link_name : link_name \notin DOMAIN robot.parent_map)
  /\ pc' = "while"
  /\ UNCHANGED <<robot, idx, passes, urdf_link_dict, linkVars>>

\* the while condition holds: the for loop starts
WhileEnter ==
  /\ pc = "while"
  /\ Len(ordered_link_names) < Len(link_names)
  /\ idx' = 1
  /\ passes' = IF passes <= Len(link_names) THEN passes + 1 ELSE passes
  /\ pc' = "for"
  /\ UNCHANGED <<robot, link_names, ordered_link_names, urdf_link_dict, linkVars>>

\* the while condition fails: the creation loop starts
WhileExit ==
  /\ pc = "while"
  /\ ~(Len(ordered_link_names) < Len(link_names))
  /\ idx' = 1
  /\ urdf_link_dict' = <<>>
  /\ pc' = "create"
  /\ UNCHANGED <<robot, link_names, ordered_link_names, passes, linkVars>>

\* one iteration of the for loop of the ordering
ForStep ==
  /\ pc = "for"
  /\ LET link_name == link_names[idx]
     IN  ordered_link_names' =
           IF CanAppend(link_name, ordered_link_names, robot.parent_map)
           THEN Append(ordered_link_names, link_name)
           ELSE ordered_link_names
  /\ idx' = idx + 1
  /\ pc' = IF idx = Len(link_names) THEN "while" ELSE "for"
  /\ UNCHANGED <<robot, link_names, passes, urdf_link_dict, linkVars>>

\* ----------------------------------------------------- read_urdf: creation
\* the skip test taking a link that is no joint's child for imaginary too
IsImaginary_OrBase(l) == l.inertial = None \/ l.name \notin DOMAIN robot.parent_map

\* "ignore imaginary links"
IsImaginary(l) == l.inertial = None

\* the 3x3 inertia matrix of an inertia element <<ixx, ixy, ixz, iyy, iyz, izz>>
inertia_matrix(inertia) ==
  <<Vec(inertia[1], inertia[2], inertia[3]),
    Vec(inertia[2], inertia[4], inertia[5]),
    Vec(inertia[3], inertia[5], inertia[6])>>

\* the type mapping that forgets continuous joints
JointTypeOf_RevoluteOnly(declared) == IF declared = "revolute" THEN "R" ELSE "P"

\* 'R' for a revolute or continuous joint, 'P' for every other declared type
JointTypeOf(declared) == IF declared \in {"revolute", "continuous"} THEN "R" ELSE "P"

\* the declared axis of a joint, the z unit axis when it declares none
AxisOf(joint) ==
  IF joint.axis = None THEN Vec(0, 0, 1)
  ELSE Vec(joint.axis[1], joint.axis[2], joint.axis[3])

\* the parameters of a joint's child without the parent name
JointParams_NoParent(link_name, parent_map) ==
  LET joint_name == parent_map[link_name][1]
      joint == joint_dict[joint_name]
  IN  [parent_name |-> NoneName,
       joint_type |-> JointTypeOf(joint.joint_type),
       axis |-> AxisOf(joint),
       origin |-> compose_pose(joint.origin.rpy, joint.origin.xyz)]

\* the parameters of a link that is a joint's child
JointParams(link_name, parent_map) ==
  LET joint_name == parent_map[link_name][1]
      joint == joint_dict[joint_name]
  IN  [parent_name |-> parent_map[link_name][2],
       joint_type |-> JointTypeOf(joint.joint_type),
       axis |-> AxisOf(joint),
       origin |-> compose_pose(joint.origin.rpy, joint.origin.xyz)]

\* the parameters of a base link with the x unit axis
BaseParams_XAxis ==
  [parent_name |-> NoneName,
   joint_type |-> "R",
   axis |-> Vec(1, 0, 0),
   origin |-> compose_pose(Zero3, Zero3)]

\* the parameters of a base link
BaseParams ==
  [parent_name |-> NoneName,
   joint_type |-> "R",
   axis |-> Vec(0, 0, 1),
   origin |-> compose_pose(Zero3, Zero3)]

\* d[key] = value
Put(d, key, value) ==
  [x \in DOMAIN d \cup {key} |-> IF x = key THEN value ELSE d[x]]

\* the creation loop body taking the link declared just before for the parent
CreateBody_PreviousAsParent(d, names, k) ==
  LET link_name == names[k]
      l == link_dict[link_name]
  IN  IF IsImaginary(l) THEN d
      ELSE LET mass == l.inertial.mass
               center_of_mass == compose_pose(l.inertial.origin.rpy, l.inertial.origin.xyz)
               p == IF link_name \in DOMAIN robot.parent_map
                    THEN JointParams(link_name, robot.parent_map)
                    ELSE BaseParams
               urdf_link == URDF_Link(p.origin, p.axis, p.joint_type, mass, center_of_mass,
                                      inertia_matrix(l.inertial.inertia))
           IN  Put(d, link_name, <<urdf_link, IF k > 1 THEN names[k - 1] ELSE NoneName>>)

\* the body of the creation loop for names[k]: the registry after it
CreateBody(d, names, k) ==
  LET link_name == names[k]
      l == link_dict[link_name]
  IN  IF IsImaginary(l) THEN d
      ELSE LET mass == l.inertial.mass
               center_of_mass == compose_pose(l.inertial.origin.rpy, l.inertial.origin.xyz)
               p == IF link_name \in DOMAIN robot.parent_map
                    THEN JointParams(link_name, robot.parent_map)
                    ELSE BaseParams
               urdf_link == URDF_Link(p.origin, p.axis, p.joint_type, mass, center_of_mass,
                                      inertia_matrix(l.inertial.inertia))
           IN  Put(d, link_name, <<urdf_link, p.parent_name>>)

\* one iteration of the creation loop
Create ==
  /\ pc = "create"
  /\ idx <= Len(link_names)
  /\ urdf_link_dict' = CreateBody(urdf_link_dict, link_names, idx)
  /\ idx' = idx + 1
  /\ UNCHANGED <<pc, robot, link_names, ordered_link_names, passes, linkVars>>

\* return urdf_link_dict
Return ==
  /\ pc = "create"
  /\ idx > Len(link_names)
  /\ pc' = "done"
  /\ UNCHANGED <<readVars, linkVars>>

\* the steps of the link ordering
OrderNext == OrderInit \/ WhileEnter \/ WhileExit \/ ForStep

ReadNext == OrderNext \/ Create \/ Return

\* the state when URDF.from_xml_string has returned description r
ReadInit(r) ==
  /\ pc = "parsed"
  /\ robot = r
  /\ link_names = <<>>
  /\ ordered_link_names = <<>>
  /\ idx = 0
  /\ passes = 0
  /\ urdf_link_dict = <<>>
  /\ args = <<>>
  /\ link = <<>>
  /\ q = 0
  /\ transform = <<>>

\* descriptions of every topology: roots, chains, trees, cycles, self loops
\* and parents that are not declared
Init ==
  \E n \in 0..MaxLinks :
    \E inertial \in [1..n -> {None, DefaultInertial}],
       parent \in [1..n -> {NoneName, Ghost} \cup 1..n] :
      ReadInit(Robot(n, inertial, parent, [c \in 1..n |-> DefaultJoint]))

Next == ReadNext

\* read_urdf on descriptions of every topology
Spec == Init /\ [][Next]_vars

\* the interpreter runs on: while the link ordering has a next step, a step
\* of it is taken
FairSpec == Init /\ [][Next]_vars /\ WF_vars(OrderNext)

\* descriptions whose joints name declared links, with every kind of joint
\* and inertial block
AttrInit ==
  \E n \in 1..MaxAttrLinks :
    \E inertial \in [1..n -> {None} \cup InertialProfiles],
       parent \in [1..n -> {NoneName} \cup 1..n],
       joint \in [1..n -> JointProfiles] :
      /\ \A c \in 1..n :
           /\ parent[c] # c
           /\ parent[c] = NoneName => joint[c] = DefaultJoint
      /\ ReadInit(Robot(n, inertial, parent, joint))

\* read_urdf on descriptions with every kind of joint and inertial block
AttrSpec == AttrInit /\ [][Next]_vars

\* ------------------------------------------------------- URDF_Link calls
Translations == {Vec(x, y, z) : x \in 0..MaxCoord, y \in 0..MaxCoord, z \in 0..MaxCoord}

Rotations == {Rpy(Vec(r, p, y)) : r \in 0..3, p \in 0..3, y \in 0..3}

\* the unit vectors along the coordinate axes, and one axis that is not unit
Axes ==
  { Vec(1, 0, 0), Vec(0, 1, 0), Vec(0, 0, 1),
    Vec(0 - 1, 0, 0), Vec(0, 0 - 1, 0), Vec(0, 0, 0 - 1), Vec(0, 0, 2) }

OriginPoses ==
  { Pose3(Rot3, Zero3), Pose3(Rot3, Vec(1, 0, 0)),
    Pose3(Rz(1), Vec(1, 0, 0)), Pose3(Rx(1), Vec(0, 1, 0)) }

LinkInit ==
  /\ pc = "new"
  /\ \E origin \in OriginPoses, axis \in Axes, joint_type \in JointTypes,
        R \in Rotations, t \in Translations :
       args = [origin |-> origin, axis |-> axis, joint_type |-> joint_type, mass |-> 1,
               center_of_mass |-> Pose3(R, t),
               inertia |-> inertia_matrix(<<0, 0, 0, 1, 0, 1>>)]
  /\ link = <<>>
  /\ q = 0
  /\ transform = <<>>
  /\ robot = <<>>
  /\ link_names = <<>>
  /\ ordered_link_names = <<>>
  /\ idx = 0
  /\ passes = 0
  /\ urdf_link_dict = <<>>

\* link = URDF_Link(origin, axis, joint_type, mass, center_of_mass, inertia)
Construct ==
  /\ pc = "new"
  /\ link' = URDF_Link(args.origin, args.axis, args.joint_type, args.mass,
                       args.center_of_mass, args.inertia)
  /\ pc' = "built"
  /\ UNCHANGED <<readVars, args, q, transform>>

\* link.A(qq)
CallA ==
  /\ pc \in {"built", "called"}
  /\ \E qq \in 0..3 :
       /\ q' = qq
       /\ transform' = A(link, qq)
  /\ pc' = "called"
  /\ UNCHANGED <<readVars, args, link>>

LinkNext == Construct \/ CallA

\* a URDF_Link is constructed and its transform asked for
LinkSpec == LinkInit /\ [][LinkNext]_vars

\* ============================================================ properties
Names == {l.name : l \in Range(robot.links)}

NumLinks == Len(robot.links)

InertialNames == {l.name : l \in {x \in Range(robot.links) : x.inertial # None}}

ParentOf(c) == IF c \in DOMAIN robot.parent_map THEN robot.parent_map[c][2] ELSE NoneName

RECURSIVE ReachesRoot(_, _)
\* following parents from link c reaches a link that is no joint's child
\* within k steps, through declared links only
ReachesRoot(c, k) ==
  IF ParentOf(c) = NoneName THEN TRUE
  ELSE IF k = 0 \/ ParentOf(c) \notin Names THEN FALSE
  ELSE ReachesRoot(ParentOf(c), k - 1)

\* the parent/child relation has no cycle and every parent is declared
Forest == \A c \in Names : ReachesRoot(c, NumLinks)

\* the parent/child relation has a cycle, or a joint's parent is not declared
Malformed == ~Forest

Ordering == pc \in {"parsed", "while", "for"}

\* the registry entries whose parent name is None
NoneParentEntries == {name \in DOMAIN urdf_link_dict : urdf_link_dict[name][2] = NoneName}

IdentityPose == Pose3(Identity3, Zero3)

\* ---- C1
\* C1: on a description whose parent/child graph has a cycle or whose joint
\* names an undeclared parent, the link-ordering step of read_urdf ends (the
\* claim: in a reported failure); it does not loop for ever.
C1_MalformedOrderingEnds == Malformed ~> ~Ordering

C3_KeysAreInertialLinks ==
  pc = "done" => DOMAIN urdf_link_dict = InertialNames

\* a returned registry with a link kept and a link pruned
C3_Witness ==
  /\ pc = "done"
  /\ InertialNames # {}
  /\ Names \ InertialNames # {}
  /\ DOMAIN urdf_link_dict = InertialNames

\* ---- C4
\* the rotation of q about an axis that lies along a coordinate axis
AxisAngle(axis, angle) ==
  LET n == Normalize(axis)
  IN  IF n[1] # 0 THEN Rx(n[1] * angle)
      ELSE IF n[2] # 0 THEN Ry(n[2] * angle)
      ELSE Rz(n[3] * angle)

\* C4: for a revolute link, A(q) is the origin pose composed with the pure
\* rotation of q about the stored joint axis, whichever axis that is.
C4_RevoluteRotatesAboutAxis ==
  (pc = "called" /\ link.joint_type = "R") =>
    transform = compose(link.origin, Pose3(AxisAngle(link.axis, q), Zero3))

\* ---- C5
\* C5: every pose the reader builds has the translation xyz and the rotation
\* its roll-pitch-yaw triple encodes: the center-of-mass pose of every entry,
\* and the origin pose of every entry that is a joint's child.
C5_PosesEncodeRpy ==
  pc = "done" =>
    \A name \in DOMAIN urdf_link_dict :
      LET made == urdf_link_dict[name][1]
          inertial == link_dict[name].inertial
      IN  /\ made.center_of_mass = Pose3(Rpy(inertial.origin.rpy), inertial.origin.xyz)
          /\ name \in DOMAIN robot.parent_map =>
               made.origin = Pose3(Rpy(joint_dict[name].origin.rpy), joint_dict[name].origin.xyz)

C7_BaseLinkEntry ==
  pc = "done" =>
    \A name \in InertialNames \ DOMAIN robot.parent_map :
      /\ name \in DOMAIN urdf_link_dict
      /\ urdf_link_dict[name][2] = NoneName
      /\ urdf_link_dict[name][1].joint_type = "R"
      /\ urdf_link_dict[name][1].axis = <<0, 0, 1>>
      /\ urdf_link_dict[name][1].origin = IdentityPose

\* a returned registry with a base link and a child of it
C7_Witness ==
  /\ pc = "done"
  /\ \E name \in InertialNames \ DOMAIN robot.parent_map :
       \E child \in DOMAIN urdf_link_dict : urdf_link_dict[child][2] = name

\* ---- C8
\* C8: the screw axis of a constructed URDF_Link is unit_twist(R.axis, t), R
\* and t the rotation and translation of the inverse of the center-of-mass
\* pose (R the transposed rotation, t = -R.c); for a center-of-mass pose with
\* identity rotation and translation c it is unit_twist(axis, -c), and for
\* axis (0,0,1) and the identity center-of-mass pose it is (0,0,1,0,0,0).
C8_ScrewAxisInComFrame ==
  pc \in {"built", "called"} =>
    LET com == args.center_of_mass
        Rt == Transpose(com.R)
    IN  /\ link.screw_axis = unit_twist(MatVec(Rt, args.axis), VecNeg(MatVec(Rt, com.t)))
        /\ com.R = Identity3 => link.screw_axis = unit_twist(args.axis, VecNeg(com.t))
        /\ (args.axis = <<0, 0, 1>> /\ com = IdentityPose) =>
             link.screw_axis = <<0, 0, 1, 0, 0, 0>>

\* a link built with a center of mass that is both rotated and displaced
C8_Witness ==
  /\ pc = "built"
  /\ args.center_of_mass.R # Identity3
  /\ args.center_of_mass.t = <<1, 0, 1>>
  /\ args.axis = <<0, 1, 0>>
  /\ link.screw_axis # unit_twist(args.axis, VecNeg(args.center_of_mass.t))

\* ---- C9
\* the positions of link name c in the ordering
PositionsOf(c) == {j \in DOMAIN ordered_link_names : ordered_link_names[j] = c}

\* every link of the ordering that is a joint's child stands after its parent
ParentsFirst ==
  \A j \in DOMAIN ordered_link_names :
    ordered_link_names[j] \in DOMAIN robot.parent_map =>
      \E i \in 1..(j - 1) : ordered_link_names[i] = ParentOf(ordered_link_names[j])

\* on a forest no more than N passes are started, and once the loop has ended
\* ordered_link_names holds every link name exactly once; at every point
\* every link of the list stands after its parent
C9_OrderingInvariant ==
  /\ ParentsFirst
  /\ Forest =>
       /\ passes <= NumLinks
       /\ pc \in {"create", "done"} =>
            /\ Len(ordered_link_names) = NumLinks
            /\ \A c \in Names : Cardinality(PositionsOf(c)) = 1

\* C9: on a forest the ordering loop ends, within N passes over the N link
\* names, and then ordered_link_names holds every link name exactly once,
\* every parent before its child; at no point of the loop does the list hold
\* a link whose parent is not already in it.
C9_OrderingOfForest == [](C9_OrderingInvariant) /\ (Forest ~> ~Ordering)

\* the loop has ended after two passes: the file declares a chain child first
C9_Witness ==
  /\ pc = "create"
  /\ Forest
  /\ passes = 2
  /\ ordered_link_names = <<3, 2, 1>>

\* ---- C10
\* the orders in which a file can declare the links named in s
FileOrders(s) ==
  LET n == Len(s)
  IN  {[j \in 1..n |-> s[f[j]]] : f \in {g \in [1..n -> 1..n] : \A a, b \in 1..n : a # b => g[a] # g[b]}}

RECURSIVE CreateFirst(_, _)
\* the registry after the creation loop has run over the first k of names
CreateFirst(names, k) ==
  IF k = 0 THEN <<>> ELSE CreateBody(CreateFirst(names, k - 1), names, k)

\* C10: read_urdf returns on forests only, whatever the file order, and the
\* registry it returns is the one the creation loop builds from the same
\* links and joints declared in any other order.
C10_RegistryIgnoresOrder ==
  pc = "done" =>
    /\ Forest
    /\ \A names \in FileOrders(link_names) :
         CreateFirst(names, Len(names)) = urdf_link_dict

\* a returned registry of three links whose computed ordering differs from
\* the file order
C10_Witness ==
  /\ pc = "done"
  /\ Cardinality(DOMAIN urdf_link_dict) = 3
  /\ ordered_link_names # link_names

====
